---- MODULE Spec2Model ----
(***************************************************************************)
(* Model of chemlearning_data: the QM9 pipeline driver (main), the per-job *)
(* wrapper compute_dispersion_correction, the GaussianJob class and the    *)
(* geometry extractor extract_xyz_geometries.                              *)
(*                                                                         *)
(* Text is modelled as sequences of one-character strings, paths as        *)
(* sequences of path pieces and characters.  Four specifications share the *)
(* module: Spec (the pooled pipeline), SpecJob (the GaussianJob methods    *)
(* called by an arbitrary client), SpecSetup (setup_computation called by  *)
(* concurrent processes), SpecPath (the constructor's path computation)    *)
(* and SpecXyz (the geometry extractor).                                   *)
(*                                                                         *)
(* compute_dispersion_correction builds its GaussianJob with the keyword   *)
(* arguments molecule and gaussian_args; the constructor of the class it   *)
(* imports from gaussian_job.py takes input_script and natoms instead, and *)
(* the class has no cleanup method.  The constructor call of the wrapper   *)
(* therefore raises TypeError in every job, and the statements after it    *)
(* (setup_computation, run, get_energies, cleanup, return) are never       *)
(* reached by the pipeline.  The methods themselves are modelled as called *)
(* on jobs built with the constructor of gaussian_job.py: by one client in *)
(* any order (SpecJob) and by concurrent processes setting up jobs         *)
(* (SpecSetup).                                                            *)
(***************************************************************************)
EXTENDS Integers, Sequences, FiniteSets, TLC

VARIABLES
    \* ---- pipeline (main, compute_dispersion_correction, GaussianJob) ----
    archive,      \* member names of the tar archive, in archive order
    fs,           \* the computations directory: job path -> directory state
    nsub,         \* number of members submitted to the executor so far
    jpc,          \* per job: "new", "queued", "running", "returned", "finished"
    future,       \* per job: the Future the executor returned
    results,      \* the executor's result queue: jobs whose call has ended
    hist,         \* per job: the calls made for it so far, with outcome
    wjob,         \* per process of the pool: the job it executes (0: none)
    wpc,          \* per process of the pool: position in the call it executes
    cwd,          \* per process (0: driver): current working directory
    dpc,          \* driver position in main
    drow,         \* driver: index of the next result to harvest
    out_file,     \* lines of the output table qm9_dispersion.data
    \* ---- GaussianJob methods called by a client (SpecJob) ----
    apc,          \* "ready" or "in_run" (external command executing)
    ajob,         \* the job whose method was called last
    acwd0,        \* working directory at the last call of run
    alast,        \* the last call and its outcome
    \* ---- GaussianJob.__init__ path computation (SpecPath) ----
    pjobs,        \* the two (name, job_id) pairs given to the constructor
    ppaths,       \* the two self.path values once constructed
    \* ---- extract_xyz_geometries (SpecXyz) ----
    written,      \* the atoms the record was written from
    stream,       \* the lines of the record (xyz_file)
    pos,          \* number of lines of the stream consumed
    xpc,          \* position in extract_xyz_geometries
    n_atoms,      \* local variable n_atoms
    atoms,        \* local variable atoms
    coordinates,  \* local variable coordinates
    molecule      \* the returned Molecule

pipeVars == <<archive, fs, nsub, jpc, future, results, hist, wjob, wpc,
              cwd, dpc, drow, out_file>>
apiVars  == <<apc, ajob, acwd0, alast>>
pathVars == <<pjobs, ppaths>>
xyzVars  == <<written, stream, pos, xpc, n_atoms, atoms, coordinates, molecule>>
vars     == <<pipeVars, apiVars, pathVars, xyzVars>>

----------------------------------------------------------------------------
(* Bounds *)

NJobs       == 3      \* members in the archive
NWorkers    == 3      \* worker processes of the pool
MaxNameLen  == 2      \* length of a job name given to the constructor
MaxIdLen    == 2      \* length of str(job_id) given to the constructor
MaxAtoms    == 2      \* atoms in a record
MaxTrailing == 1      \* lines of a record after the last atom line

----------------------------------------------------------------------------
(* Text helpers: Python's str.replace, str.zfill, str.split, str(int), int *)

Last(s) == s[Len(s)]

\* s.replace(a, b) for one-character a and b
Replace(s, a, b) == [i \in 1..Len(s) |-> IF s[i] = a THEN b ELSE s[i]]

Zeros(n) == [i \in 1..n |-> "0"]

\* s.zfill(w): pad with zeros on the left, after a leading sign
Zfill(s, w) ==
    IF Len(s) >= w THEN s
    ELSE IF Len(s) > 0 /\ s[1] \in {"+", "-"}
         THEN <<s[1]>> \o Zeros(w - Len(s)) \o Tail(s)
         ELSE Zeros(w - Len(s)) \o s

HasChar(s, c) == \E i \in 1..Len(s) : s[i] = c

FirstIndex(s, c) == CHOOSE i \in 1..Len(s) : s[i] = c /\ \A j \in 1..(i-1) : s[j] # c

\* s.split(sep) for a one-character sep
RECURSIVE Split(_, _)
Split(s, sep) ==
    IF ~HasChar(s, sep) THEN <<s>>
    ELSE LET k == FirstIndex(s, sep)
         IN  <<SubSeq(s, 1, k-1)>> \o Split(SubSeq(s, k+1, Len(s)), sep)

DigitChar == <<"1", "2", "3", "4", "5", "6", "7", "8", "9">>

Digit(d) == IF d = 0 THEN "0" ELSE DigitChar[d]

\* str(n) for a natural number n
RECURSIVE Str(_)
Str(n) == IF n < 10 THEN <<Digit(n)>> ELSE Str(n \div 10) \o <<Digit(n % 10)>>

DigitVal(c) == IF c = "0" THEN 0 ELSE CHOOSE d \in 1..9 : DigitChar[d] = c

\* int(s) for a string of decimal digits
RECURSIVE ParseInt(_)
ParseInt(s) ==
    IF Len(s) = 0 THEN 0
    ELSE 10 * ParseInt(SubSeq(s, 1, Len(s)-1)) + DigitVal(s[Len(s)])

RECURSIVE Pow10(_)
Pow10(e) == IF e = 0 THEN 1 ELSE 10 * Pow10(e - 1)

\* sep.join(parts)
RECURSIVE JoinWith(_, _)
JoinWith(sep, parts) ==
    IF Len(parts) = 0 THEN << >>
    ELSE IF Len(parts) = 1 THEN parts[1]
    ELSE parts[1] \o <<sep>> \o JoinWith(sep, Tail(parts))

\* os.path.join(a, b) for a relative b
PathJoin(a, b) == a \o <<"/">> \o b

----------------------------------------------------------------------------
(* GaussianJob.__init__: derived fields *)

PadWidth == 4

\* name.replace(" ", "_")
SanitizedNameDropsSpaces(name) == SelectSeq(name, LAMBDA c : c # " ")

SanitizedName(name) == Replace(name, " ", "_")

JobPath(basedir, name, job_id) ==
    PathJoin(basedir, SanitizedName(name) \o <<".">> \o Zfill(job_id, PadWidth))

----------------------------------------------------------------------------
(* main: folders and the job data derived from a member name *)

Basedir      == <<"cwd">>                            \* folders["basedir"]
Computations == PathJoin(Basedir, <<"computation">>) \* folders["computations"]

\* Member names of the archive: <prefix>_<id>.xyz.  A tar archive may hold
\* the same member name more than once.
Members == { <<"p", "_", "1", ".", "x">>,
             <<"p", "_", "2", ".", "x">> }

FileName(member) == Split(member, "_")[2]            \* xyz_file.name.split("_")[1]
FileId(member)   == Split(FileName(member), ".")[1]  \* file_name.split(".")[0]

Jobs    == 1..NJobs
Workers == 1..NWorkers
Procs   == 0..NWorkers

\* self.path of a GaussianJob built under the computations directory with
\* the name and id main derives from a member name
JobPathOfMember ==
    [m \in Members |-> JobPath(Computations, FileName(m), FileId(m))]

PathOf(i) == JobPathOfMember[archive[i]]

AllPaths == { JobPathOfMember[m] : m \in Members }

----------------------------------------------------------------------------
(* The computations directory and the external command's log *)

NoDir    == [exists |-> FALSE, com |-> "none",  log |-> "none", owner |-> 0]
StaleDir == [exists |-> TRUE,  com |-> "stale", log |-> "bad",  owner |-> 0]

\* The log the external command writes for a member's molecule when it runs
\* to its end
GoodLog(member) ==
    IF member = <<"p", "_", "1", ".", "x">> THEN "logA" ELSE "logB"

\* What the external command leaves in the log file.  "bad" is a log the
\* parser cannot use (the command failed, wrote nothing or stopped early):
\* ccread gives None or an object without the attributes get_energies reads.
G16Outputs(member) == {"bad", GoodLog(member)}

\* What ccread makes of a log file
LogData(log) ==
    CASE log = "logA" -> [parsed |-> TRUE, scfenergies |-> <<7, 1>>,
                          enthalpy |-> 2, freeenergy |-> 3]
      [] log = "logB" -> [parsed |-> TRUE, scfenergies |-> <<8, 4>>,
                          enthalpy |-> 5, freeenergy |-> 6]
      [] OTHER        -> [parsed |-> FALSE, scfenergies |-> <<0>>,
                          enthalpy |-> 0, freeenergy |-> 0]

NoEnergies == [scfenergy |-> 0, enthalpy |-> 0, freeenergy |-> 0]

\* os.makedirs(self.path, exist_ok=False) raises FileExistsError
MkdirExistOk(p) == FALSE

MkdirFails(p) == fs[p].exists

\* os.chdir(p) raises FileNotFoundError
ChdirFails(p) == ~fs[p].exists

\* run: the directory the process is sent to after the external command
RunStaysInJobDir(basedir, path) == path

RunReturnDir(basedir, path) == basedir

\* The keyword arguments of the constructor call in
\* compute_dispersion_correction
WrapperKeywords == {"basedir", "name", "molecule", "job_id", "gaussian_args"}

\* The parameters of GaussianJob.__init__, none with a default value
ConstructorParams == {"basedir", "name", "input_script", "job_id", "natoms"}

\* The methods the class GaussianJob defines
GaussianJobMethods == {"__init__", "run", "extract_NBO_charges", "get_coordinates",
                       "setup_computation", "get_energies"}

\* A call raises TypeError when it passes a keyword the function does not
\* have or leaves out a parameter without default
CallRaises(keywords, params) == keywords # params

\* GaussianJob(basedir=, name=, molecule=, job_id=, gaussian_args=) raises
WrapperConstructorRaises == CallRaises(WrapperKeywords, ConstructorParams)

\* job.cleanup() raises AttributeError
CleanupMissing == "cleanup" \notin GaussianJobMethods

----------------------------------------------------------------------------
(* Futures and the worker processes of the pool *)

PendingFuture == [state |-> "pending", file_id |-> << >>, energies |-> NoEnergies]
FailedFuture  == [state |-> "exception", file_id |-> << >>, energies |-> NoEnergies]

driverVars == <<nsub, dpc, drow, out_file>>

\* The pipeline leaves the variables of the other specifications alone
PipeFrame == UNCHANGED <<apiVars, pathVars, xyzVars>>

\* The call queue is first in, first out
NextQueued == CHOOSE i \in Jobs : jpc[i] = "queued" /\ \A k \in 1..(i-1) : jpc[k] # "queued"

\* A worker process takes the next call from the call queue
TakeJob(w) ==
    /\ wpc[w] = "idle"
    /\ \E i \in Jobs : jpc[i] = "queued"
    /\ wjob' = [wjob EXCEPT ![w] = NextQueued]
    /\ jpc' = [jpc EXCEPT ![NextQueued] = "running"]
    /\ wpc' = [wpc EXCEPT ![w] = "wrapper"]
    /\ UNCHANGED <<archive, fs, future, results, hist, cwd, driverVars>>
    /\ PipeFrame

\* The worker runs compute_dispersion_correction: it logs the start, the
\* constructor call raises, and the exception ends the call; the worker puts
\* it on the result queue and is free for the next call.
CallWrapper(w) ==
    /\ wpc[w] = "wrapper"
    /\ WrapperConstructorRaises
    /\ hist' = [hist EXCEPT ![wjob[w]] = Append(@, "init:raise")]
    /\ results' = Append(results, wjob[w])
    /\ jpc' = [jpc EXCEPT ![wjob[w]] = "returned"]
    /\ wjob' = [wjob EXCEPT ![w] = 0]
    /\ wpc' = [wpc EXCEPT ![w] = "idle"]
    /\ UNCHANGED <<archive, fs, future, cwd, driverVars>>
    /\ PipeFrame

\* The executor's queue management thread takes the next item of the result
\* queue and sets the exception in the Future of that call
SetFuture ==
    /\ results # << >>
    /\ future' = [future EXCEPT ![Head(results)] = FailedFuture]
    /\ jpc' = [jpc EXCEPT ![Head(results)] = "finished"]
    /\ results' = Tail(results)
    /\ UNCHANGED <<archive, fs, hist, wjob, wpc, cwd, driverVars>>
    /\ PipeFrame

----------------------------------------------------------------------------
(* The driver: main *)

workerVars == <<fs, future, results, hist, wjob, wpc>>

HeaderLine == <<"File_ID", "\t", "SCF_Energy", "\t", "Enthalpy", "\t",
                "Free_Energy", "\n">>

\* The values of a row, in the order main builds them
RowValues(energies) ==
    <<Str(energies.scfenergy), Str(energies.enthalpy), Str(energies.freeenergy)>>

\* str(file_id) + "\t" + "\t".join(values) + "\n"
RowLine(file_id, energies) ==
    file_id \o <<"\t">> \o JoinWith("\t", RowValues(energies)) \o <<"\n">>

\* Leaving the with block of the executor: shutdown(wait=True) returns once
\* every submitted call has run to its end.
PoolNoWait == TRUE

PoolDrained == \A j \in Jobs : j <= nsub => jpc[j] = "finished"

\* The loop over the archive: executor.submit for the next member.  The
\* member is parsed by extract_xyz_geometries first (see SpecXyz); members
\* are taken to be well-formed records here.
Submit ==
    /\ dpc = "submit"
    /\ nsub < NJobs
    /\ nsub' = nsub + 1
    /\ jpc' = [jpc EXCEPT ![nsub + 1] = "queued"]
    /\ dpc' = IF nsub + 1 = NJobs THEN "shutdown" ELSE "submit"
    /\ UNCHANGED <<archive, workerVars, cwd, drow, out_file>>
    /\ PipeFrame

\* End of the two with blocks
PoolShutdown ==
    /\ dpc = "shutdown"
    /\ PoolDrained
    /\ dpc' = "open"
    /\ UNCHANGED <<archive, workerVars, nsub, jpc, cwd, drow, out_file>>
    /\ PipeFrame

\* os.chdir(basedir), open the table for writing, write the header
OpenOutput ==
    /\ dpc = "open"
    /\ cwd' = [cwd EXCEPT ![0] = Basedir]
    /\ out_file' = <<HeaderLine>>
    /\ drow' = 1
    /\ dpc' = "rows"
    /\ UNCHANGED <<archive, workerVars, nsub, jpc>>
    /\ PipeFrame

\* One turn of the loop over results: result.result() raises the job's
\* exception in the driver, otherwise the row is written.
WriteRow ==
    /\ dpc = "rows"
    /\ drow <= NJobs
    /\ IF future[drow].state = "exception"
       THEN /\ dpc' = "crashed"
            /\ UNCHANGED <<out_file, drow>>
       ELSE /\ out_file' = Append(out_file,
                                  RowLine(future[drow].file_id, future[drow].energies))
            /\ drow' = drow + 1
            /\ dpc' = IF drow = NJobs THEN "done" ELSE "rows"
    /\ UNCHANGED <<archive, workerVars, nsub, jpc, cwd>>
    /\ PipeFrame

----------------------------------------------------------------------------
(* Specification of the pooled pipeline *)

ApiIdle  == apc = "ready" /\ ajob = 0 /\ acwd0 = Basedir /\ alast = "none"
PathIdle == pjobs = << >> /\ ppaths = << >>
XyzIdle  == /\ written = << >> /\ stream = << >> /\ pos = 0 /\ xpc = "idle"
            /\ n_atoms = 0 /\ atoms = << >> /\ coordinates = << >>
            /\ molecule = [coordinates |-> << >>, elements |-> << >>]

\* Directories left in the computations directory by an earlier run
StalePaths == { JobPath(Computations, <<"2", ".", "x">>, <<"2">>) }

InitFs == \E stale \in SUBSET StalePaths :
             fs = [p \in AllPaths |-> IF p \in stale THEN StaleDir ELSE NoDir]

PipeIdle ==
    /\ nsub = 0
    /\ jpc = [j \in Jobs |-> "new"]
    /\ future = [j \in Jobs |-> PendingFuture]
    /\ results = << >>
    /\ hist = [j \in Jobs |-> << >>]
    /\ wjob = [w \in Workers |-> 0]
    /\ wpc = [w \in Workers |-> "idle"]
    /\ drow = 0
    /\ out_file = << >>

Init ==
    /\ archive \in [Jobs -> Members]
    /\ InitFs
    /\ PipeIdle
    /\ cwd = [p \in Procs |-> Basedir]
    /\ dpc = "submit"
    /\ ApiIdle /\ PathIdle /\ XyzIdle

Next ==
    \/ Submit
    \/ PoolShutdown
    \/ OpenOutput
    \/ WriteRow
    \/ \E w \in Workers : TakeJob(w)
    \/ \E w \in Workers : CallWrapper(w)
    \/ SetFuture

Spec == Init /\ [][Next]_vars

----------------------------------------------------------------------------
(* Properties of the pooled pipeline *)

PoolLeft == dpc \in {"open", "rows", "done", "crashed"}

DriverEnded == dpc \in {"done", "crashed"}

\* C1: whatever jobs fail, the driver ends normally and the table has one
\* data row for every submitted job.
C1_OneRowPerJob ==
    DriverEnded => dpc = "done" /\ Len(out_file) = NJobs + 1

\* Job j has been through setup_computation, run and the extraction of its
\* results, each to its own end
WentThroughLifecycle(j) ==
    /\ Len(hist[j]) >= 3
    /\ hist[j][1] \in {"setup:ok", "setup:raise"}
    /\ hist[j][Len(hist[j])] \in {"energies:ok", "energies:raise", "cleanup"}

AllHarvested ==
    /\ nsub = NJobs
    /\ \A j \in Jobs : jpc[j] = "finished" /\ future[j].state # "pending"
    /\ \A w \in Workers : wpc[w] = "idle" /\ wjob[w] = 0

\* C4: the table is written only by the driver and only after every
\* dispatched job has finished in the pool.
C4_TableWrittenAfterHarvest ==
    [][/\ out_file' # out_file =>
            /\ AllHarvested
            /\ dpc \in {"open", "rows"}
            /\ UNCHANGED <<workerVars, jpc, nsub>>
       /\ out_file' # << >> => AllHarvested']_vars

C4_Witness ==
    /\ out_file # << >>
    /\ AllHarvested
    /\ \A j \in Jobs : hist[j] # << >>

----------------------------------------------------------------------------
(* SpecSetup: setup_computation called by concurrent processes (the        *)
(* processes of a pool), each call on a job built under the computations   *)
(* directory from a member name; every job is set up once.  Jobs of the    *)
(* same member have the same name and id.                                  *)

SetupFrame == UNCHANGED <<archive, nsub, jpc, future, results, dpc, drow, out_file,
                          apiVars, pathVars, xyzVars>>

\* A process calls job.setup_computation()
SetupCall(w, j) ==
    /\ wpc[w] = "idle"
    /\ hist[j] = << >>
    /\ \A v \in Workers : wjob[v] # j
    /\ wjob' = [wjob EXCEPT ![w] = j]
    /\ wpc' = [wpc EXCEPT ![w] = "setup_mkdir"]
    /\ UNCHANGED <<fs, hist, cwd>>
    /\ SetupFrame

\* setup_computation, os.makedirs
SetupMkdir(w) ==
    /\ wpc[w] = "setup_mkdir"
    /\ LET j == wjob[w]
           p == PathOf(j)
       IN  IF MkdirFails(p)
           THEN /\ hist' = [hist EXCEPT ![j] = Append(@, "setup:raise")]
                /\ wjob' = [wjob EXCEPT ![w] = 0]
                /\ wpc' = [wpc EXCEPT ![w] = "idle"]
                /\ UNCHANGED fs
           ELSE /\ fs' = [fs EXCEPT ![p] = [exists |-> TRUE, com |-> "none",
                                            log |-> "none", owner |-> j]]
                /\ wpc' = [wpc EXCEPT ![w] = "setup_write"]
                /\ UNCHANGED <<hist, wjob>>
    /\ UNCHANGED cwd
    /\ SetupFrame

\* setup_computation, chdir into the directory, write the input file, chdir
\* back to basedir
SetupWrite(w) ==
    /\ wpc[w] = "setup_write"
    /\ LET j == wjob[w]
           p == PathOf(j)
       IN  IF ChdirFails(p)
           THEN /\ hist' = [hist EXCEPT ![j] = Append(@, "setup:raise")]
                /\ UNCHANGED <<fs, cwd>>
           ELSE /\ fs' = [fs EXCEPT ![p].com = "script"]
                /\ cwd' = [cwd EXCEPT ![w] = Computations]
                /\ hist' = [hist EXCEPT ![j] = Append(@, "setup:ok")]
    /\ wjob' = [wjob EXCEPT ![w] = 0]
    /\ wpc' = [wpc EXCEPT ![w] = "idle"]
    /\ SetupFrame

InitSetup ==
    /\ archive \in [Jobs -> Members]
    /\ InitFs
    /\ PipeIdle
    /\ cwd = [p \in Procs |-> Basedir]
    /\ dpc = "setup"
    /\ ApiIdle /\ PathIdle /\ XyzIdle

NextSetup ==
    \/ \E w \in Workers, j \in Jobs : SetupCall(w, j)
    \/ \E w \in Workers : SetupMkdir(w)
    \/ \E w \in Workers : SetupWrite(w)

SpecSetup == InitSetup /\ [][NextSetup]_vars

\* setup_computation of job j has returned normally
SetupOk(j) == hist[j] = <<"setup:ok">>

\* Job j has created the directory (its setup_computation has passed
\* os.makedirs)
HoldsDir(j) ==
    \/ SetupOk(j)
    \/ \E w \in Workers : wjob[w] = j /\ wpc[w] = "setup_write"

\* C5: setup_computation on a job whose path exists raises and changes
\* nothing (no directory, no input file, no change of working directory);
\* of two jobs with the same name and id at most one setup_computation gets
\* past os.makedirs, so at most one succeeds, whatever the interleaving.
C5_SetupRejectsExistingDir ==
    [][/\ \A w \in Workers :
            (wpc[w] = "setup_mkdir" /\ wpc'[w] # "setup_mkdir") =>
               IF fs[PathOf(wjob[w])].exists
               THEN /\ fs' = fs
                    /\ cwd' = cwd
                    /\ hist'[wjob[w]] = <<"setup:raise">>
               ELSE /\ fs'[PathOf(wjob[w])].owner = wjob[w]
                    /\ \A i \in Jobs : PathOf(i) = PathOf(wjob[w]) => ~HoldsDir(i)
       /\ \A i, j \in Jobs :
            (i # j /\ archive[i] = archive[j]) =>
               /\ ~(HoldsDir(i) /\ HoldsDir(j))'
               /\ ~(SetupOk(i) /\ SetupOk(j))']_vars

C5_Witness ==
    \E i, j \in Jobs :
       /\ i # j
       /\ archive[i] = archive[j]
       /\ hist[i] = <<"setup:raise">>
       /\ \E w \in Workers : wjob[w] = j /\ wpc[w] = "setup_write"
       /\ fs[PathOf(j)].com = "none"

----------------------------------------------------------------------------
(* SpecJob: the methods of GaussianJob called by one client process        *)
(* (process 0) in any order, on jobs built under the computations          *)
(* directory from the names and ids main derives.                          *)

Client == CHOOSE p \in Procs : p \notin Workers

ApiFrame == UNCHANGED <<archive, nsub, jpc, future, results, hist, wjob, wpc,
                        dpc, drow, out_file, pathVars, xyzVars>>

\* setup_computation
ApiSetup(j) ==
    /\ apc = "ready"
    /\ ajob' = j
    /\ IF MkdirFails(PathOf(j))
       THEN /\ alast' = "setup:raise"
            /\ UNCHANGED <<fs, cwd>>
       ELSE /\ fs' = [fs EXCEPT ![PathOf(j)] =
                        [exists |-> TRUE, com |-> "script", log |-> "none", owner |-> j]]
            /\ cwd' = [cwd EXCEPT ![Client] = Computations]
            /\ alast' = "setup:ok"
    /\ UNCHANGED <<apc, acwd0>>
    /\ ApiFrame

\* run, up to the start of the external command
ApiRunStart(j) ==
    /\ apc = "ready"
    /\ ajob' = j
    /\ acwd0' = cwd[Client]
    /\ IF ChdirFails(PathOf(j))
       THEN /\ alast' = "run:raise"
            /\ UNCHANGED <<cwd, apc>>
       ELSE /\ cwd' = [cwd EXCEPT ![Client] = PathOf(j)]
            /\ apc' = "in_run"
            /\ alast' = "run:start"
    /\ UNCHANGED fs
    /\ ApiFrame

\* run, from the exit of the external command to the return
ApiRunFinish ==
    /\ apc = "in_run"
    /\ \E out \in G16Outputs(archive[ajob]) :
          fs' = [fs EXCEPT ![PathOf(ajob)].log = out]
    /\ cwd' = [cwd EXCEPT ![Client] = RunReturnDir(Computations, PathOf(ajob))]
    /\ apc' = "ready"
    /\ alast' = "run:return"
    /\ UNCHANGED <<ajob, acwd0>>
    /\ ApiFrame

\* get_energies
ApiGetEnergies(j) ==
    /\ apc = "ready"
    /\ ajob' = j
    /\ IF ChdirFails(PathOf(j))
       THEN /\ alast' = "energies:raise"
            /\ UNCHANGED cwd
       ELSE /\ cwd' = [cwd EXCEPT ![Client] = PathOf(j)]
            /\ alast' = IF LogData(fs[PathOf(j)].log).parsed
                        THEN "energies:ok" ELSE "energies:raise"
    /\ UNCHANGED <<fs, apc, acwd0>>
    /\ ApiFrame

\* The Natural Population Analysis table extract_NBO_charges can find in a
\* log: "full" (natoms lines), "absent", or "short" (the log ends inside the
\* table, so line.split()[2] raises IndexError).  An unusable log is cut
\* before or inside the table.
NpaTables(log) == IF log = "bad" THEN {"absent", "short"} ELSE {"full"}

\* extract_NBO_charges: chdir into the directory, open and scan the log,
\* chdir back to basedir; an exception leaves the process where it is
ApiExtractNBOCharges(j) ==
    /\ apc = "ready"
    /\ ajob' = j
    /\ IF ChdirFails(PathOf(j))
       THEN /\ alast' = "charges:raise"
            /\ UNCHANGED cwd
       ELSE IF fs[PathOf(j)].log = "none"
       THEN /\ alast' = "charges:raise"
            /\ cwd' = [cwd EXCEPT ![Client] = PathOf(j)]
       ELSE \E table \in NpaTables(fs[PathOf(j)].log) :
               IF table = "short"
               THEN /\ alast' = "charges:raise"
                    /\ cwd' = [cwd EXCEPT ![Client] = PathOf(j)]
               ELSE /\ alast' = "charges:ok"
                    /\ cwd' = [cwd EXCEPT ![Client] = Computations]
    /\ UNCHANGED <<fs, apc, acwd0>>
    /\ ApiFrame

\* get_coordinates: chdir into the directory, parse the log, return the
\* first geometry; the process stays in the directory
ApiGetCoordinates(j) ==
    /\ apc = "ready"
    /\ ajob' = j
    /\ IF ChdirFails(PathOf(j))
       THEN /\ alast' = "coordinates:raise"
            /\ UNCHANGED cwd
       ELSE /\ cwd' = [cwd EXCEPT ![Client] = PathOf(j)]
            /\ alast' = IF LogData(fs[PathOf(j)].log).parsed
                        THEN "coordinates:ok" ELSE "coordinates:raise"
    /\ UNCHANGED <<fs, apc, acwd0>>
    /\ ApiFrame

\* job.cleanup(): the class has no such method
ApiCleanup(j) ==
    /\ apc = "ready"
    /\ CleanupMissing
    /\ ajob' = j
    /\ alast' = "cleanup:raise"
    /\ UNCHANGED <<fs, cwd, apc, acwd0>>
    /\ ApiFrame

InitJob ==
    /\ archive \in [Jobs -> Members]
    /\ InitFs
    /\ PipeIdle
    /\ \E d \in {Basedir, Computations} : cwd = [p \in Procs |-> d]
    /\ dpc = "client"
    /\ ApiIdle /\ PathIdle /\ XyzIdle

NextJob ==
    \/ \E j \in Jobs : ApiSetup(j)
    \/ \E j \in Jobs : ApiRunStart(j)
    \/ ApiRunFinish
    \/ \E j \in Jobs : ApiGetEnergies(j)
    \/ \E j \in Jobs : ApiExtractNBOCharges(j)
    \/ \E j \in Jobs : ApiGetCoordinates(j)
    \/ \E j \in Jobs : ApiCleanup(j)

SpecJob == InitJob /\ [][NextJob]_vars

\* C9 as stated: whatever the working directory before run, it is the
\* working directory after run returned.
C9_RunRestoresCwd ==
    alast = "run:return" => cwd[Client] = acwd0

\* C9 amended: run returns with the process in the job's basedir, whatever
\* the working directory was before, so the directory is the one run found
\* exactly when run was called from basedir; the process is in the job
\* directory only while the external command executes, and a run that
\* raises leaves the working directory alone.
C9_RunReturnsToBasedir ==
    /\ alast = "run:return" =>
          /\ cwd[Client] = Computations
          /\ (cwd[Client] = acwd0) <=> (acwd0 = Computations)
    /\ apc = "in_run" => cwd[Client] = PathOf(ajob)
    /\ alast = "run:raise" => cwd[Client] = acwd0

C9_Witness ==
    /\ alast = "run:return"
    /\ acwd0 \in AllPaths
    /\ cwd[Client] = Computations

----------------------------------------------------------------------------
(* SpecPath: the path GaussianJob.__init__ computes, for two jobs built    *)
(* under the same base directory                                           *)

NameChars == {"a", " ", "_"}
IdChars   == {"0", "1"}

Strings(chars, maxlen) == UNION { [1..n -> chars] : n \in 1..maxlen }

JobNames == Strings(NameChars, MaxNameLen)
JobIds   == Strings(IdChars, MaxIdLen)       \* str(job_id)

InitPath ==
    /\ pjobs \in [1..2 -> [name : JobNames, job_id : JobIds]]
    /\ ppaths = << >>
    /\ archive = [j \in Jobs |-> << >>]
    /\ fs = [p \in AllPaths |-> NoDir]
    /\ PipeIdle
    /\ cwd = [p \in Procs |-> Basedir]
    /\ dpc = "path"
    /\ ApiIdle /\ XyzIdle

\* The two constructor calls
Construct ==
    /\ ppaths = << >>
    /\ ppaths' = [k \in 1..2 |-> JobPath(Computations, pjobs[k].name, pjobs[k].job_id)]
    /\ UNCHANGED <<pjobs, pipeVars, apiVars, xyzVars>>

NextPath == Construct

SpecPath == InitPath /\ [][NextPath]_vars

\* Names that differ at most where one has a space and the other an underscore
SameUpToSpaces(n1, n2) ==
    /\ Len(n1) = Len(n2)
    /\ \A k \in 1..Len(n1) : n1[k] = n2[k] \/ {n1[k], n2[k]} \subseteq {" ", "_"}

\* The k-th of the four characters of an id of at most four characters,
\* written right-aligned over zeros
PaddedChar(id, k) ==
    IF k > PadWidth - Len(id) THEN id[k - (PadWidth - Len(id))] ELSE "0"

\* Ids that are equal once padded
SamePaddedId(i1, i2) ==
    IF Len(i1) > PadWidth \/ Len(i2) > PadWidth THEN i1 = i2
    ELSE \A k \in 1..PadWidth : PaddedChar(i1, k) = PaddedChar(i2, k)

\* C6 as stated: different (name, id) pairs never get the same path.
C6_PathInjective ==
    (ppaths # << >> /\ pjobs[1] # pjobs[2]) => ppaths[1] # ppaths[2]

\* C6 amended: two jobs get the same path exactly when their names are equal
\* up to spaces written as underscores and their ids are equal once padded
\* with zeros to four characters; pairs differing in any other way never
\* share a path.
C6_PathInjectiveOnSanitizedPairs ==
    ppaths # << >> =>
       ((ppaths[1] = ppaths[2]) <=>
           /\ SameUpToSpaces(pjobs[1].name, pjobs[2].name)
           /\ SamePaddedId(pjobs[1].job_id, pjobs[2].job_id))

C6_Witness ==
    /\ ppaths # << >>
    /\ HasChar(pjobs[1].name, " ")
    /\ pjobs[1].name # pjobs[2].name
    /\ Len(pjobs[1].name) = Len(pjobs[2].name)
    /\ ~SameUpToSpaces(pjobs[1].name, pjobs[2].name)
    /\ pjobs[1].job_id # pjobs[2].job_id
    /\ SamePaddedId(pjobs[1].job_id, pjobs[2].job_id)
    /\ ppaths[1] # ppaths[2]

----------------------------------------------------------------------------
(* SpecXyz: extract_xyz_geometries on one QM9 record.  A line is its text, *)
(* the tab and newline characters included.  Numbers are integers here:    *)
(* a coordinate is a run of digits or <digits>*^<digits>.                  *)

TAB == "\t"
NL  == "\n"

\* line without its trailing newline
Chomp(line) ==
    IF Len(line) > 0 /\ Last(line) = NL THEN SubSeq(line, 1, Len(line) - 1) ELSE line

\* int(xyz_file.readline())
IntOfLine(line) == ParseInt(Chomp(line))

\* "*^" in word
HasPower(word) == \E i \in 1..(Len(word) - 1) : word[i] = "*" /\ word[i+1] = "^"

PowerIndex(word) == CHOOSE i \in 1..(Len(word) - 1) : word[i] = "*" /\ word[i+1] = "^"

\* The value of one coordinate word
ParseCoordMantissaOnly(word) ==
    IF HasPower(word)
    THEN ParseInt(SubSeq(word, 1, PowerIndex(word) - 1))
    ELSE ParseInt(word)

ParseCoord(word) ==
    IF HasPower(word)
    THEN ParseInt(SubSeq(word, 1, PowerIndex(word) - 1))
           * Pow10(ParseInt(SubSeq(word, PowerIndex(word) + 2, Len(word))))
    ELSE ParseInt(word)

\* line.split(b"\t"), decoded
Fields(line) == Split(line, TAB)

\* coords = line[1:4], each word converted
LineCoords(line) == [k \in 1..3 |-> ParseCoord(Fields(line)[k + 1])]

\* atoms.append(str(line[0])): the symbol is field 0
LineSymbol(line) == Fields(line)[1]

\* cclib's PeriodicTable().number for the symbols used here
KnownSymbols == { <<"H">>, <<"C">> }
PeriodicNumber(sym) == IF sym = <<"H">> THEN 1 ELSE 6

\* xyz_file.readlines(): the stream position after the call
ReadlinesStopsAfterAtoms(at, n) == IF at + n <= Len(stream) THEN at + n ELSE Len(stream)

ReadlinesEnd(at, n) == Len(stream)

\* xyz_file.readlines()[0:n]: the lines the loop goes through
SelectedLines(at, n) ==
    SubSeq(stream, at + 1, IF at + n <= Len(stream) THEN at + n ELSE Len(stream))

\* ---- the records given to the extractor ----

Symbols    == {"H", "C", "X"}                 \* "X" is in no periodic table
CoordWords == { <<"1">>, <<"2", "*", "^", "1">> }

\* What a coordinate word of a record means
WordValue(word) == IF word = <<"1">> THEN 1 ELSE 20

\* An atom as written: symbol and three coordinate words
AtomTexts == [sym : Symbols, words : [1..3 -> CoordWords]]

\* The atom line of the record: symbol, three coordinates, Mulliken charge
AtomLine(a) ==
    <<a.sym, TAB>> \o a.words[1] \o <<TAB>> \o a.words[2] \o <<TAB>>
       \o a.words[3] \o <<TAB, "0", NL>>

CountLine(n)  == Str(n) \o <<NL>>
PropertyLine  == <<"g", "d", "b", TAB, "1", NL>>
TrailingLine  == <<"f", "r", "e", "q", TAB, "1", NL>>

Record(as, t) ==
    <<CountLine(Len(as)), PropertyLine>>
       \o [i \in 1..Len(as) |-> AtomLine(as[i])]
       \o [i \in 1..t |-> TrailingLine]

InitXyz ==
    /\ \E n \in 0..MaxAtoms : \E as \in [1..n -> AtomTexts] : \E t \in 0..MaxTrailing :
          /\ written = as
          /\ stream = Record(as, t)
    /\ pos = 0
    /\ xpc = "count"
    /\ n_atoms = 0
    /\ atoms = << >>
    /\ coordinates = << >>
    /\ molecule = [coordinates |-> << >>, elements |-> << >>]
    /\ archive = [j \in Jobs |-> << >>]
    /\ fs = [p \in AllPaths |-> NoDir]
    /\ PipeIdle
    /\ cwd = [p \in Procs |-> Basedir]
    /\ dpc = "xyz"
    /\ ApiIdle /\ PathIdle

XyzFrame == UNCHANGED <<written, stream, pipeVars, apiVars, pathVars>>

\* n_atoms = int(xyz_file.readline())
XReadCount ==
    /\ xpc = "count"
    /\ n_atoms' = IntOfLine(stream[pos + 1])
    /\ pos' = pos + 1
    /\ xpc' = "property"
    /\ UNCHANGED <<atoms, coordinates, molecule>>
    /\ XyzFrame

\* xyz_file.readline(): the property line, not used
XReadProperty ==
    /\ xpc = "property"
    /\ pos' = pos + 1
    /\ xpc' = "atoms"
    /\ UNCHANGED <<n_atoms, atoms, coordinates, molecule>>
    /\ XyzFrame

\* the loop over xyz_file.readlines()[0:n_atoms]
XReadAtoms ==
    /\ xpc = "atoms"
    /\ LET lines == SelectedLines(pos, n_atoms)
       IN  /\ atoms' = [i \in 1..Len(lines) |-> LineSymbol(lines[i])]
           /\ coordinates' = [i \in 1..Len(lines) |-> LineCoords(lines[i])]
    /\ pos' = ReadlinesEnd(pos, n_atoms)
    /\ xpc' = "lookup"
    /\ UNCHANGED <<n_atoms, molecule>>
    /\ XyzFrame

\* the periodic table lookup (KeyError on an unknown symbol), Molecule(...)
XBuild ==
    /\ xpc = "lookup"
    /\ IF \A i \in 1..Len(atoms) : atoms[i] \in KnownSymbols
       THEN /\ molecule' = [coordinates |-> coordinates,
                            elements |-> [i \in 1..Len(atoms) |-> PeriodicNumber(atoms[i])]]
            /\ xpc' = "returned"
       ELSE /\ xpc' = "raised"
            /\ UNCHANGED molecule
    /\ UNCHANGED <<pos, n_atoms, atoms, coordinates>>
    /\ XyzFrame

NextXyz == XReadCount \/ XReadProperty \/ XReadAtoms \/ XBuild

SpecXyz == InitXyz /\ [][NextXyz]_vars

\* C7: the Molecule returned for a record of N atoms has exactly N atoms,
\* the i-th with the atomic number of the i-th atom line's symbol and that
\* line's three coordinates, in the order written.
C7_MoleculeMatchesRecord ==
    xpc = "returned" =>
       /\ Len(molecule.elements) = Len(written)
       /\ Len(molecule.coordinates) = Len(written)
       /\ \A i \in 1..Len(written) :
            /\ molecule.elements[i] = (IF written[i].sym = "H" THEN 1 ELSE 6)
            /\ molecule.coordinates[i] =
                 [k \in 1..3 |-> WordValue(written[i].words[k])]

C7_Witness ==
    /\ xpc = "returned"
    /\ Len(written) >= 2
    /\ written[1].sym # written[2].sym
    /\ written[1].words[1] # written[1].words[3]
    /\ molecule.coordinates[1][3] = 20

\* C8 as stated: the call consumes exactly N+2 lines of the stream.
C8_ConsumesExactlyRecord ==
    xpc = "returned" => pos = Len(written) + 2

\* C8 amended: the Molecule is built from exactly the first N+2 lines, but
\* the call reads the stream to its end: the lines after the N-th atom line
\* are read and dropped.
C8_ReadsToEndUsesRecord ==
    xpc \in {"lookup", "returned", "raised"} =>
       /\ pos = Len(stream)
       /\ n_atoms = Len(written)
       /\ Len(atoms) = n_atoms
       /\ \A i \in 1..Len(atoms) :
            /\ atoms[i] = <<written[i].sym>>
            /\ coordinates[i] = [k \in 1..3 |-> WordValue(written[i].words[k])]

C8_Witness ==
    /\ xpc = "returned"
    /\ Len(written) >= 1
    /\ Len(stream) > Len(written) + 2
    /\ pos = Len(stream)

====
